---- MODULE Spec2Model ----
(***************************************************************************)
(* A model of the onion-scraper crawl orchestration layer:                 *)
(*   - ProxyManager and ProxyRotatingRequests (src/proxy_extension.py)     *)
(*   - the record store, the processed-id ledger and the scan drivers of   *)
(*     ComprehensivePastebinScraper (src/pastebin_comprehensive_scraper.py)*)
(* Each component has its own specification over the shared variables; the *)
(* variables a specification does not use keep their initial values.       *)
(***************************************************************************)
EXTENDS Integers, Sequences, FiniteSets, TLC

VARIABLES
    \* ---- ProxyManager
    proxies,          \* self.proxies: list of addresses, in list order
    failed_proxies,   \* self.failed_proxies: the quarantine set
    proxy_stats,      \* self.proxy_stats: address -> success/failures/last_used
    now,              \* time.time(), in hours
    sel,              \* the last selection call: operation and result
    pool_lock,        \* self.lock of the ProxyManager: the thread holding it, or None
    reporters,        \* the threads inside mark_success or mark_failure
    \* ---- ProxyRotatingRequests.request, one call per requester
    req,
    max_retries,      \* self.max_retries of the client
    \* ---- ComprehensivePastebinScraper: record store
    db,               \* self.db["onion_links"]: list of entries
    dbFile,           \* the entries in the file at db_path
    lock,             \* self.lock: the thread holding it, or None
    save_interval,    \* config["save_interval"]
    hist,             \* the last two add_entry calls
    scan_sessions,    \* self.db["metadata"]["scan_sessions"]
    sessionsFile,     \* the session records in the file at db_path
    dbFileTorn,       \* the file at db_path is open for writing: its bytes
                      \* are a truncated or partial document (dbFile and
                      \* sessionsFile then hold the last complete content)
    dbFileText,       \* the bytes of the file at db_path decode as text
    \* ---- ComprehensivePastebinScraper._rate_limit
    rl,               \* last_request_time, the clock and the callers
    \* ---- ComprehensivePastebinScraper: ledger and scan drivers
    processed_ids,    \* self.processed_ids
    ledgerFile,       \* the lines of the file db_path + ".processed"
    max_workers,      \* config["max_workers"]
    is_running,       \* self.is_running
    scan_progress,    \* self.scan_progress
    pc,               \* where the thread running the scan method is
    mode,             \* the scan method that was called
    loc,              \* the local variables of the scan methods
    tasks,            \* the calls of scrape_single_paste given to the executor
    g                 \* history: stop requests, identifiers with links found, the
                      \* count of the search phase of a comprehensive run,
                      \* calls submitted, session records at the start of the run

poolVars == <<proxies, failed_proxies, proxy_stats, now, sel, pool_lock, reporters>>
fetchVars == <<req, max_retries>>
storeVars == <<db, dbFile, lock, save_interval, hist>>
sessVars == <<scan_sessions, sessionsFile, dbFileTorn, dbFileText>>
rateVars == <<rl>>
scanVars == <<processed_ids, ledgerFile, max_workers, is_running, scan_progress, pc, mode,
              loc, tasks, g>>
vars == <<proxies, failed_proxies, proxy_stats, now, sel, pool_lock, reporters, req, max_retries,
          db, dbFile, lock, save_interval, hist, scan_sessions, sessionsFile, dbFileTorn, dbFileText, rl,
          processed_ids, ledgerFile, max_workers, is_running, scan_progress, pc, mode, loc,
          tasks, g>>

NoneVal == "None"

(***************************************************************************)
(* Generic helpers on sequences and sets.                                  *)
(***************************************************************************)
Range(s) == {s[i] : i \in 1..Len(s)}

Min(a, b) == IF a < b THEN a ELSE b

RECURSIVE Pow2(_)
Pow2(n) == IF n <= 0 THEN 1 ELSE 2 * Pow2(n - 1)

NoDup(s) == \A i, j \in 1..Len(s) : i # j => s[i] # s[j]

(***************************************************************************)
(* Bounds of the model.                                                    *)
(***************************************************************************)
ProxyAddrs == {"p1", "p2"}
MaxReports == 12      \* reports (success + failure) recorded per proxy

\* time.time() at the start, in hours: any value of the real clock is far
\* above every last_used of 0.
EpochHours == 20

(***************************************************************************)
(*                              ProxyManager                               *)
(***************************************************************************)
FreshStats == [success |-> 0, failures |-> 0, last_used |-> 0]

\* The proxy lists add_proxies may be called with.
ProxyLists == {<<"p1">>, <<"p2">>, <<"p1", "p2">>, <<"p2", "p1">>, <<"p1", "p1">>}

RECURSIVE AppendNew(_, _)
\* add_proxies' loop: append each address that is not in the list yet.
AppendNew(ps, list) ==
    IF list = <<>> THEN ps
    ELSE AppendNew(IF Head(list) \in Range(ps) THEN ps ELSE Append(ps, Head(list)),
                   Tail(list))

add_proxies(list) ==
    /\ pool_lock = NoneVal
    /\ proxies' = AppendNew(proxies, list)
    /\ proxy_stats' = [p \in ProxyAddrs |->
                          IF p \in Range(list) /\ p \notin Range(proxies)
                          THEN FreshStats ELSE proxy_stats[p]]
    /\ UNCHANGED <<failed_proxies, now, sel, pool_lock, reporters>>

\* proxy_score as a fraction num/den: 1.0 for a proxy without requests, else
\* success_rate + 0.1 * hours since last_used.
ScoreNum(st, t) ==
    IF st.success + st.failures = 0 THEN 10
    ELSE 10 * st.success + (t - st.last_used) * (st.success + st.failures)

ScoreDen(st) ==
    IF st.success + st.failures = 0 THEN 10 ELSE 10 * (st.success + st.failures)

\* score(p) > score(q)
ScoreGreater(stats, t, p, q) ==
    ScoreNum(stats[p], t) * ScoreDen(stats[q]) > ScoreNum(stats[q], t) * ScoreDen(stats[p])

RECURSIVE InsertDesc(_, _, _, _)
\* Insert p into the list s sorted by descending score, after every element
\* whose score is not smaller (list.sort is stable, also with reverse=True).
InsertDesc(s, p, stats, t) ==
    IF s = <<>> THEN <<p>>
    ELSE IF ScoreGreater(stats, t, p, Head(s)) THEN <<p>> \o s
    ELSE <<Head(s)>> \o InsertDesc(Tail(s), p, stats, t)

RECURSIVE SortByScore(_, _, _)
\* available_proxies.sort(key=proxy_score, reverse=True)
SortByScore(s, stats, t) ==
    IF s = <<>> THEN <<>>
    ELSE InsertDesc(SortByScore(SubSeq(s, 1, Len(s) - 1), stats, t), s[Len(s)], stats, t)

Available(ps, failed) == SelectSeq(ps, LAMBDA p : p \notin failed)

\* A selection without the reset of the quarantine set.
best_no_reset(ps, failed, stats, t) ==
    IF ps = <<>> THEN [ret |-> NoneVal, failed |-> failed, proxies |-> ps]
    ELSE IF Available(ps, failed) = <<>>
         THEN [ret |-> NoneVal, failed |-> failed, proxies |-> ps]
         ELSE [ret |-> SortByScore(Available(ps, failed), stats, t)[1],
               failed |-> failed, proxies |-> ps]

\* get_best_proxy: the result, the quarantine set and the proxy list after the
\* call. With every proxy quarantined the set is reset and available_proxies
\* is self.proxies itself, which the sort then reorders in place.
best_proxy(ps, failed, stats, t) ==
    IF ps = <<>> THEN [ret |-> NoneVal, failed |-> failed, proxies |-> ps]
    ELSE IF Available(ps, failed) = <<>>
         THEN [ret |-> SortByScore(ps, stats, t)[1],
               failed |-> {}, proxies |-> SortByScore(ps, stats, t)]
         ELSE [ret |-> SortByScore(Available(ps, failed), stats, t)[1],
               failed |-> failed, proxies |-> ps]

\* A random selection without the reset of the quarantine set.
random_no_reset(ps, failed) ==
    IF Available(ps, failed) = <<>> THEN {NoneVal} ELSE Range(Available(ps, failed))

\* get_random_proxy: the values random.choice may return (None for an empty
\* pool).
random_proxy(ps, failed) ==
    IF Available(ps, failed) = <<>>
    THEN (IF ps = <<>> THEN {NoneVal} ELSE Range(ps))
    ELSE Range(Available(ps, failed))

\* Every proxy of a non-empty pool is in the quarantine set.
AllQuarantined == proxies # <<>> /\ Available(proxies, failed_proxies) = <<>>

get_best_proxy ==
    LET r == best_proxy(proxies, failed_proxies, proxy_stats, now) IN
    /\ pool_lock = NoneVal
    /\ proxies' = r.proxies
    /\ failed_proxies' = r.failed
    /\ sel' = [op |-> "best", ret |-> r.ret, empty |-> proxies = <<>>,
               reset |-> AllQuarantined]
    /\ UNCHANGED <<proxy_stats, now, pool_lock, reporters>>

get_random_proxy ==
    \E r \in random_proxy(proxies, failed_proxies) :
        /\ pool_lock = NoneVal
        /\ failed_proxies' = IF Available(proxies, failed_proxies) = <<>>
                             THEN {} ELSE failed_proxies
        /\ sel' = [op |-> "random", ret |-> r, empty |-> proxies = <<>>,
                   reset |-> AllQuarantined]
        /\ UNCHANGED <<proxies, proxy_stats, now, pool_lock, reporters>>

Total(st) == st.success + st.failures

\* The quarantine test with "at least 10" requests.
quarantine_at_10(st) == Total(st) >= 10 /\ 10 * st.failures > 7 * Total(st)

\* mark_failure's test: total > 10 and failures / total > 0.7.
quarantine_due(st) == Total(st) > 10 /\ 10 * st.failures > 7 * Total(st)

\* A success that leaves the quarantine set alone.
success_keeps_quarantine(failed, p) == failed

\* mark_success: failed_proxies.discard(proxy)
success_clears(failed, p) == failed \ {p}

Registered(p) == p \in Range(proxies)

mark_success(p) ==
    /\ pool_lock = NoneVal
    /\ IF Registered(p)
       THEN /\ proxy_stats' = [proxy_stats EXCEPT ![p].success = @ + 1,
                                                  ![p].last_used = now]
            /\ failed_proxies' = success_clears(failed_proxies, p)
       ELSE UNCHANGED <<proxy_stats, failed_proxies>>
    /\ UNCHANGED <<proxies, now, sel, pool_lock, reporters>>

\* A mark_failure without the test "if proxy in self.proxy_stats".
mark_failure_unchecked(p) ==
    /\ pool_lock = NoneVal
    /\ proxy_stats' = [proxy_stats EXCEPT ![p].failures = @ + 1]
    /\ failed_proxies' = IF quarantine_due(proxy_stats'[p])
                         THEN failed_proxies \cup {p} ELSE failed_proxies
    /\ UNCHANGED <<proxies, now, sel, pool_lock, reporters>>

mark_failure(p) ==
    /\ pool_lock = NoneVal
    /\ IF Registered(p)
       THEN /\ proxy_stats' = [proxy_stats EXCEPT ![p].failures = @ + 1]
            /\ failed_proxies' = IF quarantine_due(proxy_stats'[p])
                                 THEN failed_proxies \cup {p} ELSE failed_proxies
       ELSE UNCHANGED <<proxy_stats, failed_proxies>>
    /\ UNCHANGED <<proxies, now, sel, pool_lock, reporters>>

\* ---- mark_success and mark_failure, statement by statement, called by the
\* worker threads of the executor.
ReportThreads == {"w1", "w2"}

IdleReporter == [pc |-> "idle", kind |-> NoneVal, p |-> NoneVal, read |-> 0]

\* No thread is inside a report; calls counts the reports begun per address.
NoReports == [t |-> [x \in ReportThreads |-> IdleReporter],
              calls |-> [p \in ProxyAddrs |-> 0]]

\* Thread x calls mark_success(p) or mark_failure(p).
report_call(x, kind, p) ==
    /\ reporters.t[x].pc = "idle"
    /\ reporters.calls[p] < MaxReports
    /\ reporters' = [reporters EXCEPT
                        !.t[x] = [pc |-> "acquire", kind |-> kind, p |-> p, read |-> 0],
                        !.calls[p] = @ + 1]
    /\ UNCHANGED <<proxies, failed_proxies, proxy_stats, now, sel, pool_lock>>

\* A manager whose operations take no lock.
no_pool_lock == TRUE

\* "with self.lock": the lock is free.
pool_lock_free == pool_lock = NoneVal

\* "with self.lock:" and "if proxy in self.proxy_stats": the thread gets the
\* lock; for an address without statistics nothing is left to do but to
\* release it.
report_acquire(x) ==
    /\ reporters.t[x].pc = "acquire"
    /\ pool_lock_free
    /\ pool_lock' = x
    /\ reporters' = [reporters EXCEPT !.t[x].pc =
                        IF Registered(reporters.t[x].p) THEN "read" ELSE "release"]
    /\ UNCHANGED <<proxies, failed_proxies, proxy_stats, now, sel>>

\* The read of self.proxy_stats[proxy]["success"] += 1 (or "failures").
report_read(x) ==
    /\ reporters.t[x].pc = "read"
    /\ reporters' = [reporters EXCEPT
                        !.t[x].pc = "write",
                        !.t[x].read = IF reporters.t[x].kind = "success"
                                      THEN proxy_stats[reporters.t[x].p].success
                                      ELSE proxy_stats[reporters.t[x].p].failures]
    /\ UNCHANGED <<proxies, failed_proxies, proxy_stats, now, sel, pool_lock>>

\* The write of the += 1, and last_used = time.time() of mark_success.
report_write(x) ==
    /\ reporters.t[x].pc = "write"
    /\ proxy_stats' = IF reporters.t[x].kind = "success"
                      THEN [proxy_stats EXCEPT
                               ![reporters.t[x].p].success = reporters.t[x].read + 1,
                               ![reporters.t[x].p].last_used = now]
                      ELSE [proxy_stats EXCEPT
                               ![reporters.t[x].p].failures = reporters.t[x].read + 1]
    /\ reporters' = [reporters EXCEPT !.t[x].pc = "decide"]
    /\ UNCHANGED <<proxies, failed_proxies, now, sel, pool_lock>>

\* The end of the block: failed_proxies.discard(proxy) of mark_success, the
\* quarantine test of mark_failure on the statistics as they are now; the
\* lock is released.
report_decide(x) ==
    /\ reporters.t[x].pc = "decide"
    /\ failed_proxies' =
          IF reporters.t[x].kind = "success"
          THEN success_clears(failed_proxies, reporters.t[x].p)
          ELSE IF quarantine_due(proxy_stats[reporters.t[x].p])
               THEN failed_proxies \cup {reporters.t[x].p} ELSE failed_proxies
    /\ pool_lock' = IF pool_lock = x THEN NoneVal ELSE pool_lock
    /\ reporters' = [reporters EXCEPT !.t[x] = IdleReporter]
    /\ UNCHANGED <<proxies, proxy_stats, now, sel>>

\* Leaving the block without an update, for an address without statistics.
report_release(x) ==
    /\ reporters.t[x].pc = "release"
    /\ pool_lock' = IF pool_lock = x THEN NoneVal ELSE pool_lock
    /\ reporters' = [reporters EXCEPT !.t[x] = IdleReporter]
    /\ UNCHANGED <<proxies, failed_proxies, proxy_stats, now, sel>>

\* get_proxy_stats: the three counts of the snapshot.
get_proxy_stats ==
    [total_proxies |-> Len(proxies),
     failed_proxies |-> Cardinality(failed_proxies),
     working_proxies |-> Len(proxies) - Cardinality(failed_proxies)]

\* The pool specification records at most MaxReports reports per proxy.
ReportsLeft(p) == Total(proxy_stats[p]) < MaxReports

PoolInit ==
    /\ proxies = <<>>
    /\ failed_proxies = {}
    /\ proxy_stats = [p \in ProxyAddrs |-> FreshStats]
    /\ now = EpochHours
    /\ sel = [op |-> "none", ret |-> NoneVal, empty |-> TRUE, reset |-> FALSE]
    /\ pool_lock = NoneVal
    /\ reporters = NoReports

(***************************************************************************)
(*                     ProxyRotatingRequests.request                       *)
(***************************************************************************)
DefaultMaxRetries == 5
RetryDelay == 2
MaxBackoff == 30
MaxRequests == 2      \* request calls in a behaviour

\* Values of self.max_retries: the default, and values on both sides of the
\* point where the backoff reaches its cap.
MaxRetriesChoices == {1, DefaultMaxRetries, 7}

\* What one attempt can end in: a status code (written as a string), or an
\* exception of session.request.
SuccessStatuses == {"200", "404"}
ProxyErrorStatuses == {"403", "429", "502", "503", "504"}
OtherStatuses == {"500"}
Exceptions == {"Timeout", "ConnectionError", "Exception"}
Outcomes == SuccessStatuses \cup ProxyErrorStatuses \cup OtherStatuses \cup Exceptions

IdleReq == [pc |-> "idle", retries |-> 0, attempts |-> 0, waits |-> <<>>,
            proxy |-> NoneVal, response |-> NoneVal, proxy_used |-> NoneVal,
            only503 |-> TRUE, calls |-> 0, received |-> NoneVal]

\* The backoff without its cap.
backoff_uncapped(retries) == RetryDelay * Pow2(retries - 1)

\* sleep_time = retry_delay * 2 ** (retries - 1), capped at 30 seconds.
backoff_delay(retries) == Min(RetryDelay * Pow2(retries - 1), MaxBackoff)

\* request is called: retries = 0.
request_begin ==
    /\ req.pc \in {"idle", "done"}
    /\ req.calls < MaxRequests
    /\ req' = [IdleReq EXCEPT !.pc = "select", !.calls = req.calls + 1]
    /\ UNCHANGED <<poolVars, max_retries, storeVars, scanVars, sessVars, rateVars>>

\* The thread that runs request.
Client == "client"

\* A client that selects the proxy and sends the request inside one block
\* that holds the lock of the manager.
select_holding_lock ==
    LET r == best_proxy(proxies, failed_proxies, proxy_stats, now) IN
    /\ req.pc = "select"
    /\ pool_lock = NoneVal
    /\ proxies' = r.proxies
    /\ failed_proxies' = r.failed
    /\ sel' = [op |-> "best", ret |-> r.ret, empty |-> proxies = <<>>,
               reset |-> AllQuarantined]
    /\ pool_lock' = IF r.ret = NoneVal THEN NoneVal ELSE Client
    /\ req' = IF r.ret = NoneVal
              THEN [req EXCEPT !.pc = "done", !.response = NoneVal, !.proxy_used = NoneVal]
              ELSE [req EXCEPT !.pc = "send", !.proxy = r.ret]
    /\ UNCHANGED <<proxy_stats, now, reporters, max_retries, storeVars, scanVars,
                   sessVars, rateVars>>

\* The head of the retry loop: get_best_proxy; without a proxy the loop is
\* left and (None, None) returned.
request_select ==
    /\ req.pc = "select"
    /\ get_best_proxy
    /\ req' = IF sel'.ret = NoneVal
              THEN [req EXCEPT !.pc = "done", !.response = NoneVal, !.proxy_used = NoneVal]
              ELSE [req EXCEPT !.pc = "send", !.proxy = sel'.ret]
    /\ UNCHANGED <<max_retries, storeVars, scanVars, sessVars, rateVars>>

\* A client that counts the success but goes round the loop again.
success_then_retry(status) ==
    /\ req.pc = "send"
    /\ mark_success(req.proxy)
    /\ req' = [req EXCEPT
                 !.attempts = @ + 1,
                 !.retries = @ + 1,
                 !.only503 = FALSE,
                 !.waits = IF req.retries + 1 < max_retries
                           THEN Append(@, backoff_delay(req.retries + 1)) ELSE @,
                 !.pc = IF req.retries + 1 < max_retries THEN "select" ELSE "done",
                 !.received = status]
    /\ UNCHANGED <<max_retries, storeVars, scanVars, sessVars, rateVars>>

\* The request returned a 200 or a 404: mark_success, return (response, proxy).
request_success(status) ==
    /\ req.pc = "send"
    /\ mark_success(req.proxy)
    /\ req' = [req EXCEPT !.pc = "done", !.attempts = @ + 1, !.response = status,
                          !.proxy_used = req.proxy, !.only503 = FALSE,
                          !.received = status]
    /\ UNCHANGED <<max_retries, storeVars, scanVars, sessVars, rateVars>>

\* A client that reports a failure for the proxy-error statuses and the
\* exceptions only, and goes round the loop without a report for any other
\* status.
failure_unreported_for_other(outcome) ==
    /\ req.pc = "send"
    /\ IF outcome \in OtherStatuses THEN UNCHANGED poolVars ELSE mark_failure(req.proxy)
    /\ req' = [req EXCEPT
                 !.attempts = @ + 1,
                 !.retries = @ + 1,
                 !.only503 = @ /\ outcome = "503",
                 !.waits = IF req.retries + 1 < max_retries
                           THEN Append(@, backoff_delay(req.retries + 1)) ELSE @,
                 !.pc = IF req.retries + 1 < max_retries THEN "select" ELSE "done",
                 !.response = NoneVal,
                 !.proxy_used = NoneVal,
                 !.received = outcome]
    /\ UNCHANGED <<max_retries, storeVars, scanVars, sessVars, rateVars>>

\* Any other status, or an exception: mark_failure, retries += 1, and either
\* sleep and go round the loop again or return (None, None).
request_failure(outcome) ==
    /\ req.pc = "send"
    /\ mark_failure(req.proxy)
    /\ req' = [req EXCEPT
                 !.attempts = @ + 1,
                 !.retries = @ + 1,
                 !.only503 = @ /\ outcome = "503",
                 !.waits = IF req.retries + 1 < max_retries
                           THEN Append(@, backoff_delay(req.retries + 1)) ELSE @,
                 !.pc = IF req.retries + 1 < max_retries THEN "select" ELSE "done",
                 !.response = NoneVal,
                 !.proxy_used = NoneVal,
                 !.received = outcome]
    /\ UNCHANGED <<max_retries, storeVars, scanVars, sessVars, rateVars>>

FetchIdle ==
    /\ req = IdleReq
    /\ max_retries = DefaultMaxRetries


(***************************************************************************)
(*            ComprehensivePastebinScraper: the record store               *)
(***************************************************************************)
\* Paste identifiers are strings, written as sequences of characters.
Id1 == <<"1">>
IdA == <<"a">>
Links == {"l1", "l2"}
Titles == {"t1", "t2"}
DefaultSaveInterval == 100
MaxSaveInterval == 3  \* save_interval is drawn from 2..MaxSaveInterval
MaxMerges == 4        \* add_entry calls in a behaviour of the store alone

StoreIds == {Id1, IdA}

\* list(set(links)): the sequences without repetition over a set of links.
Orderings(S) ==
    {q \in UNION {[1..n -> S] : n \in 0..Cardinality(S)} :
        Len(q) = Cardinality(S) /\ Range(q) = S /\ NoDup(q)}

\* The entries scrape_single_paste can return for the identifiers of ids: at
\* least one link, no link twice; the title stands for the entry's metadata.
EntriesOf(ids) ==
    {[pasteId |-> i, title |-> t, links |-> q] :
        i \in ids, t \in Titles, q \in UNION {Orderings(S) : S \in (SUBSET Links) \ {{}}}}

NoEntry == [pasteId |-> <<>>, title |-> "", links |-> <<>>]

\* Index of the first entry of d with this pasteId, 0 if there is none.
FirstIndex(d, id) ==
    IF \E i \in 1..Len(d) : d[i].pasteId = id
    THEN CHOOSE i \in 1..Len(d) :
            /\ d[i].pasteId = id
            /\ \A j \in 1..(i - 1) : d[j].pasteId # id
    ELSE 0

LinksOf(d, id) == IF FirstIndex(d, id) = 0 THEN <<>> ELSE d[FirstIndex(d, id)].links

\* A merge that appends every link of the entry, seen before or not.
merge_all_links(d, entry) ==
    IF FirstIndex(d, entry.pasteId) # 0
    THEN [d EXCEPT ![FirstIndex(d, entry.pasteId)].links = @ \o entry.links]
    ELSE Append(d, entry)

\* A merge that takes over the metadata of the new entry.
merge_overwrite(d, entry) ==
    IF FirstIndex(d, entry.pasteId) # 0
    THEN [d EXCEPT ![FirstIndex(d, entry.pasteId)] =
             [entry EXCEPT !.links =
                 d[FirstIndex(d, entry.pasteId)].links
                 \o SelectSeq(entry.links,
                              LAMBDA l : l \notin Range(d[FirstIndex(d, entry.pasteId)].links))]]
    ELSE Append(d, entry)

\* add_entry on the list of entries: extend the first entry with this pasteId
\* by the links it does not hold yet, or append the entry.
merge_entry(d, entry) ==
    IF FirstIndex(d, entry.pasteId) # 0
    THEN [d EXCEPT ![FirstIndex(d, entry.pasteId)].links =
             @ \o SelectSeq(entry.links,
                            LAMBDA l : l \notin Range(d[FirstIndex(d, entry.pasteId)].links))]
    ELSE Append(d, entry)

\* A periodic save that never comes due.
never_due(d, entry, interval) == FALSE

\* add_entry reaches its periodic save: the entry was appended as a new one
\* and the number of entries is a multiple of save_interval.
save_due(d, entry, interval) ==
    /\ FirstIndex(d, entry.pasteId) = 0
    /\ (Len(d) + 1) % interval = 0

\* add_entry(entry) by thread t. The periodic save calls _save_db inside the
\* "with self.lock" block; _save_db acquires self.lock again, a
\* threading.Lock, which is not reentrant: t blocks there for ever, holding
\* the lock, and the file is not written.
add_entry(t, entry) ==
    /\ lock = NoneVal
    /\ db' = merge_entry(db, entry)
    /\ lock' = IF save_due(db, entry, save_interval) THEN t ELSE NoneVal
    /\ UNCHANGED <<dbFile, save_interval>>

\* History of the store alone: the last two entries given to add_entry, and
\* the links the store held for their pasteId before each call.
RecordCall(entry) ==
    hist' = [e1 |-> hist.e2, e2 |-> entry,
             l0 |-> IF hist.e2.pasteId = entry.pasteId THEN hist.l1
                    ELSE LinksOf(db, entry.pasteId),
             l1 |-> LinksOf(db, entry.pasteId),
             n |-> hist.n + 1]

\* The file at db_path once json.dump(self.db, f) has returned and the file
\* is closed: the whole of self.db, entries and session records.
write_file ==
    /\ dbFile' = db
    /\ sessionsFile' = scan_sessions
    /\ dbFileTorn' = FALSE
    /\ dbFileText' = TRUE

\* _save_db() by a thread that does not hold the lock, from the call to the
\* return.
save_db ==
    /\ lock = NoneVal
    /\ write_file
    /\ UNCHANGED <<db, lock, save_interval>>

\* _save_db(), first half: thread t takes the lock and open(db_path, 'w')
\* truncates the file in place.
save_begin(t) ==
    /\ lock = NoneVal
    /\ lock' = t
    /\ dbFileTorn' = TRUE
    /\ dbFileText' = TRUE
    /\ UNCHANGED <<db, dbFile, save_interval, scan_sessions, sessionsFile>>

\* _save_db(), second half: json.dump has written the document, the file is
\* closed and the lock released.
save_end(t) ==
    /\ lock = t
    /\ dbFileTorn
    /\ write_file
    /\ lock' = NoneVal
    /\ UNCHANGED <<db, save_interval, scan_sessions>>

NoHist == [e1 |-> NoEntry, e2 |-> NoEntry, l0 |-> <<>>, l1 |-> <<>>, n |-> 0]

StoreUnused ==
    /\ db = <<>>
    /\ dbFile = <<>>
    /\ lock = NoneVal
    /\ save_interval = DefaultSaveInterval
    /\ hist = NoHist
    /\ scan_sessions = <<>>
    /\ sessionsFile = <<>>
    /\ dbFileTorn = FALSE
    /\ dbFileText = TRUE

(***************************************************************************)
(*            ComprehensivePastebinScraper._rate_limit                     *)
(***************************************************************************)
MinDelay == 1         \* request_delay[0], seconds
MaxDelay == 3         \* request_delay[1], seconds
StartClock == 10      \* time.time() when the scraper is constructed
MaxElapsed == 4       \* seconds the clock advances in a behaviour
MaxCalls == 3         \* _rate_limit calls that return in a behaviour

RateWorkers == {"w1", "w2"}

IdleCaller == [pc |-> "idle", delay |-> 0, wake |-> 0]

\* last_request_time = 0 after construction; permits is the history of the
\* calls that returned: when, and with which drawn delay.
IdleLimiter == [clock |-> StartClock, last_request_time |-> 0,
                w |-> [x \in RateWorkers |-> IdleCaller], permits |-> <<>>]

\* sleep_time of a caller that read the clock at current_time: the time at
\* which its sleep ends (at once if time_since_last >= delay).
wake_time(current_time, last, delay) ==
    IF current_time - last < delay THEN current_time + (delay - (current_time - last))
    ELSE current_time

\* A limiter that reads and writes last_request_time under a lock: a caller
\* enters only while no other caller is between its read and its write.
rate_enter_locked(x) == rl.w[x].pc = "idle" /\ \A y \in RateWorkers : rl.w[y].pc = "idle"

\* _rate_limit takes no lock: a caller enters whatever the others do.
rate_enter(x) == rl.w[x].pc = "idle"

\* Worker x enters _rate_limit: current_time, time_since_last and the drawn
\* delay, up to the call of time.sleep.
rate_read(x, delay) ==
    /\ rate_enter(x)
    /\ Len(rl.permits) + Cardinality({y \in RateWorkers : rl.w[y].pc = "sleep"}) < MaxCalls
    /\ rl' = [rl EXCEPT !.w[x] = [pc |-> "sleep", delay |-> delay,
                                  wake |-> wake_time(rl.clock, rl.last_request_time, delay)]]

\* The sleep of worker x is over (or there was none):
\* self.last_request_time = time.time(), and the call returns.
rate_stamp(x) ==
    /\ rl.w[x].pc = "sleep"
    /\ rl.clock >= rl.w[x].wake
    /\ rl' = [rl EXCEPT !.w[x] = IdleCaller,
                        !.last_request_time = rl.clock,
                        !.permits = Append(@, [at |-> rl.clock, delay |-> rl.w[x].delay])]

\* _rate_limit as the scan specifications see it, from the call to the
\* return: the sleep has no effect on their state, the stamp has.
rate_limit == rl' = [rl EXCEPT !.last_request_time = rl.clock]

\* A second passes.
rate_tick ==
    /\ rl.clock < StartClock + MaxElapsed
    /\ rl' = [rl EXCEPT !.clock = @ + 1]

(***************************************************************************)
(*        ComprehensivePastebinScraper: the processed-id ledger            *)
(***************************************************************************)
IdAsp == <<"a", " ">>    \* an identifier with a trailing blank
Whitespace == {" "}

RECURSIVE LStrip(_)
LStrip(x) == IF x # <<>> /\ Head(x) \in Whitespace THEN LStrip(Tail(x)) ELSE x

RECURSIVE RStrip(_)
RStrip(x) ==
    IF x # <<>> /\ x[Len(x)] \in Whitespace THEN RStrip(SubSeq(x, 1, Len(x) - 1)) ELSE x

\* str.strip()
Strip(x) == LStrip(RStrip(x))

\* _load_processed_ids: set(line.strip() for line in f); a line is what
\* _save_processed_id wrote before the line break.
load_processed_ids(file) == {Strip(file[i]) : i \in 1..Len(file)}

\* _load_db: the entries of the file; a file that does not parse gives
\* JSONDecodeError and a new, empty database.
load_db(file, torn) == IF torn THEN <<>> ELSE file

\* A scrape that never skips an identifier.
never_processed(id, ledger) == FALSE

\* scrape_single_paste's first test: paste_id in self.processed_ids.
already_processed(id, ledger) == id \in ledger

\* _save_processed_id: append the line to the file, then add to the set.
save_processed_id(id) ==
    /\ ledgerFile' = Append(ledgerFile, id)
    /\ processed_ids' = processed_ids \cup {id}

\* _save_processed_id when the file system decides: the open or the write of
\* the append raises (appended = FALSE), the except clause logs it and the set
\* is left alone; or the line is appended and the identifier added.
save_processed_id_io(id, appended) ==
    IF appended THEN save_processed_id(id)
    ELSE UNCHANGED <<ledgerFile, processed_ids>>

(***************************************************************************)
(*     The pastes and search pages the scraper is run against              *)
(***************************************************************************)
BatchSize == 2        \* config["batch_size"]
MaxWorkers == 2       \* config["max_workers"]
MaxPages == 2         \* max_pages of search_pastebin
MaxScrapes == 3       \* calls of scrape_single_paste submitted in a behaviour
MaxSessions == 1      \* session records after which no further scan is started

Digits == <<"1", "2", "3", "4", "5", "6", "7", "8", "9">>

\* str(current_id)
Str(n) == <<Digits[n]>>

\* What random.choices may spell.
RandomIds == {IdA}

\* The .onion links in the raw content of a paste.
LinksIn(id) ==
    CASE id = Id1 -> {"l1"}
      [] id = IdA -> {"l2"}
      [] OTHER -> {}

SearchTerms == <<"onion">>

\* The paste identifiers among the hrefs of one page of search results.
ResultPage(term, page) == IF page = 1 THEN <<IdA, IdAsp>> ELSE <<IdA>>

PageTitle == "title of the page"
PlaceholderTitle == "Paste <id>"

\* max_pastes as given to a scan method; 0 stands for None.
MaxPastesChoices == {0, 1}

FetchOutcomes == {"200", "404", "403", "500", "exception"}
MetaOutcomes == {"200", "not 200", "exception"}
PageOutcomes == {"200", "not 200", "exception"}

(***************************************************************************)
(*                         scrape_single_paste                             *)
(***************************************************************************)
NewTask(id) ==
    [id |-> id, st |-> "queued", entry |-> NoEntry, consumed |-> FALSE,
     known |-> id \in processed_ids, settled |-> id \in Range(ledgerFile),
     fetched |-> FALSE, failed |-> FALSE]

Running(i) == tasks[i].st \in {"fetch", "meta", "record"}

\* An executor that starts a thread for every call submitted.
thread_per_call == TRUE

\* ThreadPoolExecutor(max_workers=max_workers): a queued call is started when
\* fewer than max_workers calls are running.
worker_free == Cardinality({j \in 1..Len(tasks) : Running(j)}) < max_workers

\* What scrape_single_paste and the scan methods never touch.
envVars1 == <<poolVars, fetchVars, save_interval, hist, max_workers>>
envVars0 == <<envVars1, rl>>
envVars == <<envVars0, scan_sessions, sessionsFile, dbFileTorn, dbFileText>>

\* A worker of the pool takes the next queued call and makes the first test of
\* scrape_single_paste.
scrape_start(i) ==
    /\ tasks[i].st = "queued"
    /\ \A j \in 1..(i - 1) : tasks[j].st # "queued"
    /\ worker_free
    /\ tasks' = [tasks EXCEPT ![i].st =
                    IF already_processed(tasks[i].id, processed_ids) THEN "done" ELSE "fetch"]
    /\ UNCHANGED <<db, dbFile, lock, processed_ids, ledgerFile, is_running,
                   scan_progress, pc, mode, loc, g, envVars>>

\* The except clause of scrape_single_paste: count the error under the lock.
count_error ==
    /\ lock = NoneVal
    /\ scan_progress' = [scan_progress EXCEPT !.errors = @ + 1]

\* A scrape that writes the identifier to the ledger also when the status of
\* the raw content is neither 200 nor 404.
fetch_settles_every_status(i, outcome) ==
    /\ tasks[i].st = "fetch"
    /\ CASE outcome \in {"404", "403", "500"} ->
              /\ save_processed_id(tasks[i].id)
              /\ tasks' = [tasks EXCEPT ![i].st = "done", ![i].fetched = TRUE,
                                        ![i].failed = outcome # "404"]
              /\ UNCHANGED <<scan_progress, g>>
         [] outcome = "exception" ->
              /\ count_error
              /\ tasks' = [tasks EXCEPT ![i].st = "done", ![i].fetched = TRUE,
                                        ![i].failed = TRUE]
              /\ UNCHANGED <<g, processed_ids, ledgerFile>>
         [] outcome = "200" ->
              IF LinksIn(tasks[i].id) = {}
              THEN /\ save_processed_id(tasks[i].id)
                   /\ tasks' = [tasks EXCEPT ![i].st = "done", ![i].fetched = TRUE]
                   /\ UNCHANGED <<scan_progress, g>>
              ELSE /\ tasks' = [tasks EXCEPT ![i].st = "meta", ![i].fetched = TRUE]
                   /\ g' = [g EXCEPT !.found = @ \cup {tasks[i].id}]
                   /\ UNCHANGED <<scan_progress, processed_ids, ledgerFile>>
    /\ rate_limit
    /\ UNCHANGED <<db, dbFile, lock, is_running, pc, mode, loc, envVars1, sessVars>>

\* _rate_limit and the request for the raw content, up to the request for the
\* metadata.
scrape_fetch(i, outcome) ==
    /\ tasks[i].st = "fetch"
    /\ CASE outcome = "404" ->
              /\ save_processed_id(tasks[i].id)
              /\ tasks' = [tasks EXCEPT ![i].st = "done", ![i].fetched = TRUE]
              /\ UNCHANGED <<scan_progress, g>>
         [] outcome \in {"403", "500"} ->
              /\ tasks' = [tasks EXCEPT ![i].st = "done", ![i].fetched = TRUE,
                                        ![i].failed = TRUE]
              /\ UNCHANGED <<scan_progress, g, processed_ids, ledgerFile>>
         [] outcome = "exception" ->
              /\ count_error
              /\ tasks' = [tasks EXCEPT ![i].st = "done", ![i].fetched = TRUE,
                                        ![i].failed = TRUE]
              /\ UNCHANGED <<g, processed_ids, ledgerFile>>
         [] outcome = "200" ->
              IF LinksIn(tasks[i].id) = {}
              THEN /\ save_processed_id(tasks[i].id)
                   /\ tasks' = [tasks EXCEPT ![i].st = "done", ![i].fetched = TRUE]
                   /\ UNCHANGED <<scan_progress, g>>
              ELSE /\ tasks' = [tasks EXCEPT ![i].st = "meta", ![i].fetched = TRUE]
                   /\ g' = [g EXCEPT !.found = @ \cup {tasks[i].id}]
                   /\ UNCHANGED <<scan_progress, processed_ids, ledgerFile>>
    /\ rate_limit
    /\ UNCHANGED <<db, dbFile, lock, is_running, pc, mode, loc, envVars1, sessVars>>

\* The request for the paste's page and the entry built from it: the title
\* of the page, or the placeholder when the page is not a 200 or does not
\* parse. An exception of the request leaves through the except clause.
scrape_meta(i, outcome) ==
    /\ tasks[i].st = "meta"
    /\ IF outcome = "exception"
       THEN /\ count_error
            /\ tasks' = [tasks EXCEPT ![i].st = "done", ![i].failed = TRUE]
       ELSE /\ \E q \in Orderings(LinksIn(tasks[i].id)) :
                 tasks' = [tasks EXCEPT
                     ![i].st = "record",
                     ![i].entry = [pasteId |-> tasks[i].id,
                                   title |-> IF outcome = "200" THEN PageTitle
                                             ELSE PlaceholderTitle,
                                   links |-> q]]
            /\ UNCHANGED scan_progress
    /\ UNCHANGED <<db, dbFile, lock, processed_ids, ledgerFile, is_running,
                   pc, mode, loc, g, envVars>>

\* "with self.lock: found += len(onion_links)", _save_processed_id, return.
scrape_record(i) ==
    /\ tasks[i].st = "record"
    /\ lock = NoneVal
    /\ scan_progress' = [scan_progress EXCEPT !.found = @ + Len(tasks[i].entry.links)]
    /\ save_processed_id(tasks[i].id)
    /\ tasks' = [tasks EXCEPT ![i].st = "done"]
    /\ UNCHANGED <<db, dbFile, lock, is_running, pc, mode, loc, g, envVars>>

(***************************************************************************)
(*                          The scan methods                               *)
(***************************************************************************)
InitLoc == [batch |-> <<>>, processed_count |-> 0, cursor |-> 1,
            max_pastes |-> 0, total_max |-> 0, all_ids |-> {}, paste_ids |-> <<>>,
            term |-> 1, page |-> 1, duration_hours |-> 0, start_time |-> 0]

Modes == {"enumeration", "search", "comprehensive"}

FirstPc(m) ==
    CASE m = "enumeration" -> "enum_begin"
      [] m = "search" -> "search_begin"
      [] m = "comprehensive" -> "comp_begin"

\* A scan method is called with max_pastes = mp and duration_hours = d (0 for
\* None, and for the methods without the parameter). No scan is started once
\* MaxSessions records are in the history or MaxScrapes calls were submitted.
start_run(m, mp, d) ==
    /\ pc \in {"idle", "done"}
    /\ Len(scan_sessions) < MaxSessions
    /\ g.submitted < MaxScrapes
    /\ mode' = m
    /\ pc' = FirstPc(m)
    /\ loc' = [InitLoc EXCEPT !.max_pastes = mp, !.total_max = mp, !.duration_hours = d]
    /\ tasks' = <<>>
    /\ g' = [g EXCEPT !.stopped = FALSE, !.sessions0 = Len(scan_sessions), !.searched = 0]
    /\ UNCHANGED <<db, dbFile, lock, processed_ids, ledgerFile, is_running,
                   scan_progress, envVars>>

\* A loop over as_completed that gives the batch up at the first call that
\* ended in a failure.
collect_until_failure(after) ==
    \E i \in 1..Len(tasks) :
        /\ ~tasks[i].consumed
        /\ tasks[i].st = "done"
        /\ tasks[i].failed
        /\ pc' = after
        /\ loc' = [loc EXCEPT !.batch = <<>>]
        /\ UNCHANGED <<db, dbFile, lock, scan_progress, tasks>>

\* The loop "for future in as_completed(futures)" of run_enumeration_scan and
\* run_search_scan, one turn: the loop ends when every future was taken; else
\* it waits for a completed one, leaves the loop if is_running is cleared, or
\* merges the result and counts it. An add_entry that reaches its periodic
\* save never returns.
collect(after) ==
    IF \A i \in 1..Len(tasks) : tasks[i].consumed
    THEN /\ pc' = after
         /\ tasks' = <<>>
         /\ loc' = [loc EXCEPT !.batch = <<>>]
         /\ UNCHANGED <<db, dbFile, lock, scan_progress>>
    ELSE \E i \in 1..Len(tasks) :
            /\ ~tasks[i].consumed
            /\ tasks[i].st = "done"
            /\ IF ~is_running
               THEN /\ pc' = after
                    /\ loc' = [loc EXCEPT !.batch = <<>>]
                    /\ UNCHANGED <<db, dbFile, lock, scan_progress, tasks>>
               ELSE /\ tasks' = [tasks EXCEPT ![i].consumed = TRUE]
                    /\ IF tasks[i].entry # NoEntry
                       THEN add_entry("main", tasks[i].entry)
                       ELSE UNCHANGED <<db, dbFile, lock>>
                    /\ IF lock' # NoneVal
                       THEN /\ pc' = "blocked in add_entry"
                            /\ UNCHANGED <<loc, scan_progress>>
                       ELSE /\ pc' = pc
                            /\ loc' = [loc EXCEPT !.processed_count = @ + 1]
                            /\ scan_progress' = [scan_progress EXCEPT
                                   !.processed = loc.processed_count + 1]

\* Leaving "with ThreadPoolExecutor": shutdown waits for every submitted call.
PoolDrained == \A i \in 1..Len(tasks) : tasks[i].st = "done"

\* ---- run_enumeration_scan
enum_begin ==
    /\ pc = "enum_begin"
    /\ is_running' = TRUE
    /\ loc' = [loc EXCEPT !.batch = <<>>, !.processed_count = 0, !.cursor = 1]
    /\ pc' = "enum_next"
    /\ UNCHANGED <<db, dbFile, lock, processed_ids, ledgerFile, scan_progress,
                   mode, tasks, g, envVars>>

\* The generator (strategy "mixed") yields the next identifier, or ends when
\* is_running is cleared; the loop body up to the test of the batch size.
enum_next ==
    /\ pc = "enum_next"
    /\ IF ~is_running
       THEN /\ pc' = "enum_shutdown"
            /\ UNCHANGED loc
       ELSE /\ g.submitted + Len(loc.batch) < MaxScrapes
            /\ \E sequential \in BOOLEAN :
                 \E id \in (IF sequential THEN {Str(loc.cursor)} ELSE RandomIds) :
                    IF loc.max_pastes > 0 /\ loc.processed_count >= loc.max_pastes
                    THEN /\ pc' = "enum_shutdown"
                         /\ UNCHANGED loc
                    ELSE /\ loc' = [loc EXCEPT
                                !.batch = Append(@, id),
                                !.cursor = IF sequential THEN @ + 1 ELSE @]
                         /\ pc' = IF Len(loc.batch) + 1 >= BatchSize
                                  THEN "enum_submit" ELSE "enum_next"
    /\ UNCHANGED <<db, dbFile, lock, processed_ids, ledgerFile, is_running,
                   scan_progress, mode, tasks, g, envVars>>

\* futures = {executor.submit(self.scrape_single_paste, pid): pid for pid in batch}
enum_submit ==
    /\ pc = "enum_submit"
    /\ tasks' = tasks \o [k \in 1..Len(loc.batch) |-> NewTask(loc.batch[k])]
    /\ g' = [g EXCEPT !.submitted = @ + Len(loc.batch)]
    /\ pc' = "enum_collect"
    /\ UNCHANGED <<db, dbFile, lock, processed_ids, ledgerFile, is_running,
                   scan_progress, mode, loc, envVars>>

enum_collect ==
    /\ pc = "enum_collect"
    /\ collect("enum_next")
    /\ UNCHANGED <<processed_ids, ledgerFile, is_running, mode, g, envVars>>

\* session_info of run_enumeration_scan when it is appended: the strategy and
\* the two counts written at the end of the run.
session_info ==
    [strategy |-> "enumeration",
     processed |-> loc.processed_count, found |-> scan_progress.found]

\* The executor is shut down, then the final save, the session record and
\* the second save.
enum_shutdown ==
    /\ pc = "enum_shutdown"
    /\ PoolDrained
    /\ lock = NoneVal
    /\ scan_sessions' = Append(scan_sessions, session_info)
    /\ dbFile' = db
    /\ sessionsFile' = scan_sessions'
    /\ dbFileTorn' = FALSE
    /\ dbFileText' = TRUE
    /\ tasks' = <<>>
    /\ pc' = IF mode = "comprehensive" THEN "comp_finish" ELSE "done"
    /\ loc' = IF mode = "comprehensive" THEN loc ELSE InitLoc
    /\ UNCHANGED <<db, lock, processed_ids, ledgerFile, is_running, scan_progress,
                   mode, g, envVars0>>

\* ---- run_search_scan
search_begin ==
    /\ pc = "search_begin"
    /\ is_running' = TRUE
    /\ loc' = [loc EXCEPT !.all_ids = {}, !.term = 1, !.page = 1, !.paste_ids = <<>>]
    /\ pc' = "search_term"
    /\ UNCHANGED <<db, dbFile, lock, processed_ids, ledgerFile, scan_progress,
                   mode, tasks, g, envVars>>

\* "for term in search_terms": the loop ends, or is left when is_running is
\* cleared, or search_pastebin(term) is called.
search_term ==
    /\ pc = "search_term"
    /\ IF loc.term > Len(SearchTerms) \/ ~is_running
       THEN /\ pc' = "search_submit"
            /\ UNCHANGED loc
       ELSE /\ pc' = "search_page"
            /\ loc' = [loc EXCEPT !.page = 1, !.paste_ids = <<>>]
    /\ UNCHANGED <<db, dbFile, lock, processed_ids, ledgerFile, is_running,
                   scan_progress, mode, tasks, g, envVars>>

\* search_pastebin, one page: the identifiers of the page that are not in
\* processed_ids; the search of the term ends with the last page, a cleared
\* is_running, a failed request or a page without new identifiers.
search_page(outcome) ==
    /\ pc = "search_page"
    /\ LET page_ids == SelectSeq(ResultPage(SearchTerms[loc.term], loc.page),
                                 LAMBDA id : id \notin processed_ids)
       IN IF loc.page > MaxPages \/ ~is_running \/ outcome # "200" \/ page_ids = <<>>
          THEN /\ pc' = "search_merge"
               /\ UNCHANGED loc
          ELSE /\ loc' = [loc EXCEPT !.paste_ids = @ \o page_ids, !.page = @ + 1]
               /\ pc' = "search_page"
    /\ IF loc.page > MaxPages \/ ~is_running THEN UNCHANGED rl ELSE rate_limit
    /\ UNCHANGED <<db, dbFile, lock, processed_ids, ledgerFile, is_running,
                   scan_progress, mode, tasks, g, envVars1, sessVars>>

\* all_paste_ids.update(paste_ids) and the max_pastes cut of the set.
search_merge ==
    /\ pc = "search_merge"
    /\ LET all == loc.all_ids \cup Range(loc.paste_ids)
       IN IF loc.max_pastes > 0 /\ Cardinality(all) >= loc.max_pastes
          THEN /\ \E cut \in SUBSET all :
                    /\ Cardinality(cut) = loc.max_pastes
                    /\ loc' = [loc EXCEPT !.all_ids = cut]
               /\ pc' = "search_submit"
          ELSE /\ loc' = [loc EXCEPT !.all_ids = all, !.term = @ + 1]
               /\ pc' = "search_term"
    /\ UNCHANGED <<db, dbFile, lock, processed_ids, ledgerFile, is_running,
                   scan_progress, mode, tasks, g, envVars>>

\* futures = {executor.submit(self.scrape_single_paste, pid): pid for pid in
\* all_paste_ids}: every collected identifier, in the order of the set.
search_submit ==
    /\ pc = "search_submit"
    /\ g.submitted + Cardinality(loc.all_ids) <= MaxScrapes
    /\ g' = [g EXCEPT !.submitted = @ + Cardinality(loc.all_ids)]
    /\ \E q \in Orderings(loc.all_ids) :
          tasks' = tasks \o [k \in 1..Len(q) |-> NewTask(q[k])]
    /\ loc' = [loc EXCEPT !.processed_count = 0]
    /\ pc' = "search_collect"
    /\ UNCHANGED <<db, dbFile, lock, processed_ids, ledgerFile, is_running,
                   scan_progress, mode, envVars>>

search_collect ==
    /\ pc = "search_collect"
    /\ collect("search_shutdown")
    /\ UNCHANGED <<processed_ids, ledgerFile, is_running, mode, g, envVars>>

\* The executor is shut down, then the save.
search_shutdown ==
    /\ pc = "search_shutdown"
    /\ PoolDrained
    /\ lock = NoneVal
    /\ write_file
    /\ tasks' = <<>>
    /\ pc' = IF mode = "comprehensive" THEN "comp_after_search" ELSE "done"
    /\ loc' = IF mode = "comprehensive" THEN loc ELSE InitLoc
    /\ g' = [g EXCEPT !.searched = IF mode = "comprehensive"
                                   THEN loc.processed_count ELSE @]
    /\ UNCHANGED <<db, lock, processed_ids, ledgerFile, is_running, scan_progress,
                   mode, scan_sessions, envVars0>>

\* ---- run_comprehensive_scan
\* is_running = True, then run_search_scan(max_pastes // 4 if max_pastes else None).
comp_begin ==
    /\ pc = "comp_begin"
    /\ is_running' = TRUE
    /\ loc' = [loc EXCEPT !.max_pastes = loc.total_max \div 4, !.start_time = now]
    /\ pc' = "search_begin"
    /\ UNCHANGED <<db, dbFile, lock, processed_ids, ledgerFile, scan_progress,
                   mode, tasks, g, envVars>>

\* After the search: return if is_running is cleared; else the enumeration
\* with what is left of max_pastes, if anything is left.
comp_after_search ==
    /\ pc = "comp_after_search"
    /\ IF ~is_running
       THEN /\ pc' = "done"
            /\ loc' = InitLoc
       ELSE IF loc.total_max = 0
            THEN /\ pc' = "enum_begin"
                 /\ loc' = [loc EXCEPT !.max_pastes = 0]
            ELSE IF loc.total_max - scan_progress.processed > 0
                 THEN /\ pc' = "enum_begin"
                      /\ loc' = [loc EXCEPT
                                    !.max_pastes = loc.total_max - scan_progress.processed]
                 ELSE /\ pc' = "comp_finish"
                      /\ UNCHANGED loc
    /\ UNCHANGED <<db, dbFile, lock, processed_ids, ledgerFile, is_running,
                   scan_progress, mode, tasks, g, envVars>>

\* "if duration_hours: ... elapsed_hours >= duration_hours"
duration_reached ==
    loc.duration_hours > 0 /\ now - loc.start_time >= loc.duration_hours

\* The duration test and the last save of run_comprehensive_scan.
comp_finish ==
    /\ pc = "comp_finish"
    /\ lock = NoneVal
    /\ is_running' = IF duration_reached THEN FALSE ELSE is_running
    /\ write_file
    /\ pc' = "done"
    /\ loc' = InitLoc
    /\ g' = [g EXCEPT !.searched = 0]
    /\ UNCHANGED <<db, lock, processed_ids, ledgerFile, scan_progress,
                   mode, tasks, scan_sessions, envVars0>>

\* Where no scraper object exists: before the constructor is called and
\* after it raised.
NoScraper == {"not constructed", "constructor raised"}

\* ---- stop_scan, from another thread: clear the flag, then _save_db (which
\* waits for the lock).
stop_scan ==
    /\ pc \notin NoScraper
    /\ is_running' = FALSE
    /\ IF lock = NoneVal THEN write_file
       ELSE UNCHANGED <<dbFile, sessionsFile, dbFileTorn, dbFileText>>
    /\ g' = [g EXCEPT !.stopped = @ \/ (pc \notin {"idle", "done"} /\ is_running)]
    /\ UNCHANGED <<db, lock, processed_ids, ledgerFile, scan_progress, pc, mode,
                   loc, tasks, scan_sessions, envVars0>>

\* What open(db_path, 'r') and the read of json.load make of the bytes of
\* the file: TRUE when they decode as text (always for bytes that are text
\* in every encoding; for other bytes it depends on the encoding of the
\* locale), FALSE when the read raises UnicodeDecodeError.
decode_outcomes(text) == IF text THEN {TRUE} ELSE BOOLEAN

\* The process ends (a crash, or an exit after a scan) and a new scraper is
\* constructed over the same files. _load_db catches json.JSONDecodeError
\* only: an exception of the read leaves __init__ and no scraper exists.
restart ==
    /\ \E decodes \in decode_outcomes(dbFileText) :
          IF decodes
          THEN /\ db' = load_db(dbFile, dbFileTorn \/ ~dbFileText)
               /\ scan_sessions' = load_db(sessionsFile, dbFileTorn \/ ~dbFileText)
               /\ processed_ids' = load_processed_ids(ledgerFile)
               /\ pc' = "idle"
          ELSE /\ db' = <<>>
               /\ scan_sessions' = <<>>
               /\ processed_ids' = {}
               /\ pc' = "constructor raised"
    /\ lock' = NoneVal
    /\ is_running' = FALSE
    /\ scan_progress' = [processed |-> 0, found |-> 0, errors |-> 0]
    /\ mode' = "none"
    /\ loc' = InitLoc
    /\ tasks' = <<>>
    /\ g' = [g EXCEPT !.stopped = FALSE, !.sessions0 = Len(scan_sessions'),
                      !.found = {db'[i].pasteId : i \in 1..Len(db')}, !.searched = 0]
    /\ rl' = [rl EXCEPT !.last_request_time = 0]
    /\ UNCHANGED <<dbFile, sessionsFile, dbFileTorn, dbFileText, ledgerFile, envVars1>>

NoHistory == [stopped |-> FALSE, found |-> {}, submitted |-> 0, sessions0 |-> 0,
              searched |-> 0]

ScanIdle ==
    /\ processed_ids = {}
    /\ ledgerFile = <<>>
    /\ is_running = FALSE
    /\ scan_progress = [processed |-> 0, found |-> 0, errors |-> 0]
    /\ pc = "idle"
    /\ mode = "none"
    /\ loc = InitLoc
    /\ tasks = <<>>
    /\ g = NoHistory
    /\ rl = IdleLimiter

\* The scraper of the scan specifications: config["max_workers"] = MaxWorkers.
ScanUnused == ScanIdle /\ max_workers = MaxWorkers

(***************************************************************************)
(*                           Specifications                                *)
(***************************************************************************)
\* The pools a client is built over: none, one or two registered proxies.
InitFetch ==
    /\ proxies \in {<<>>, <<"p1">>, <<"p1", "p2">>}
    /\ failed_proxies = {}
    /\ proxy_stats = [p \in ProxyAddrs |-> FreshStats]
    /\ now = EpochHours
    /\ sel = [op |-> "none", ret |-> NoneVal, empty |-> TRUE, reset |-> FALSE]
    /\ pool_lock = NoneVal
    /\ reporters = NoReports
    /\ req = IdleReq
    /\ max_retries \in MaxRetriesChoices
    /\ StoreUnused /\ ScanUnused

NextFetch ==
    \/ request_begin
    \/ request_select
    \/ \E status \in SuccessStatuses : request_success(status)
    \/ \E outcome \in Outcomes \ SuccessStatuses : request_failure(outcome)

SpecFetch == InitFetch /\ [][NextFetch]_vars

InitPool == PoolInit /\ FetchIdle /\ StoreUnused /\ ScanUnused

NextPool ==
    \/ \E list \in ProxyLists : add_proxies(list) /\ UNCHANGED <<fetchVars, storeVars, scanVars, sessVars, rateVars>>
    \/ get_best_proxy /\ UNCHANGED <<fetchVars, storeVars, scanVars, sessVars, rateVars>>
    \/ get_random_proxy /\ UNCHANGED <<fetchVars, storeVars, scanVars, sessVars, rateVars>>
    \/ \E p \in ProxyAddrs :
          ReportsLeft(p) /\ mark_success(p) /\ UNCHANGED <<fetchVars, storeVars, scanVars, sessVars, rateVars>>
    \/ \E p \in ProxyAddrs :
          ReportsLeft(p) /\ mark_failure(p) /\ UNCHANGED <<fetchVars, storeVars, scanVars, sessVars, rateVars>>

SpecPool == InitPool /\ [][NextPool]_vars

\* Two worker threads reporting to a manager of one proxy, for that proxy and
\* for an address that was never registered, while a third thread selects.
InitReports ==
    /\ proxies = <<"p1">>
    /\ failed_proxies = {}
    /\ proxy_stats = [p \in ProxyAddrs |-> FreshStats]
    /\ now = EpochHours
    /\ sel = [op |-> "none", ret |-> NoneVal, empty |-> TRUE, reset |-> FALSE]
    /\ pool_lock = NoneVal
    /\ reporters = NoReports
    /\ FetchIdle /\ StoreUnused /\ ScanUnused

\* What the ProxyManager never touches.
clientVars == <<fetchVars, storeVars, scanVars, sessVars, rateVars>>

NextReports ==
    \/ \E x \in ReportThreads, kind \in {"success", "failure"}, p \in ProxyAddrs :
          report_call(x, kind, p) /\ UNCHANGED clientVars
    \/ \E x \in ReportThreads : report_acquire(x) /\ UNCHANGED clientVars
    \/ \E x \in ReportThreads : report_read(x) /\ UNCHANGED clientVars
    \/ \E x \in ReportThreads : report_write(x) /\ UNCHANGED clientVars
    \/ \E x \in ReportThreads : report_decide(x) /\ UNCHANGED clientVars
    \/ \E x \in ReportThreads : report_release(x) /\ UNCHANGED clientVars
    \/ get_best_proxy /\ UNCHANGED clientVars

SpecReports == InitReports /\ [][NextReports]_vars

\* A new scraper over no file, or over a file an earlier run left.
InitStore ==
    /\ PoolInit /\ FetchIdle
    /\ dbFile \in {<<>>, <<[pasteId |-> IdA, title |-> "t1", links |-> <<"l1">>]>>}
    /\ db = dbFile
    /\ lock = NoneVal
    /\ save_interval \in 2..MaxSaveInterval
    /\ hist = NoHist
    /\ scan_sessions = <<>>
    /\ sessionsFile = <<>>
    /\ dbFileTorn = FALSE
    /\ dbFileText = TRUE
    /\ ScanUnused

NextStore ==
    \/ \E entry \in EntriesOf(StoreIds) :
          /\ hist.n < MaxMerges
          /\ add_entry("main", entry)
          /\ RecordCall(entry)
          /\ UNCHANGED <<poolVars, fetchVars, scanVars, sessVars, rateVars>>
    \/ save_db /\ UNCHANGED <<hist, poolVars, fetchVars, scanVars, scan_sessions, rateVars>>

SpecStore == InitStore /\ [][NextStore]_vars

\* The store with _save_db in its two halves, and the process killed and
\* started again at any point.
InitFlush ==
    /\ PoolInit /\ FetchIdle
    /\ StoreUnused
    /\ ScanUnused

NextFlush ==
    \/ \E entry \in EntriesOf(StoreIds) :
          /\ add_entry("main", entry)
          /\ UNCHANGED <<hist, sessVars, poolVars, fetchVars, scanVars, rateVars>>
    \/ save_begin("_save_db") /\ UNCHANGED <<hist, poolVars, fetchVars, scanVars, rateVars>>
    \/ save_end("_save_db") /\ UNCHANGED <<hist, poolVars, fetchVars, scanVars, rateVars>>
    \/ restart

SpecFlush == InitFlush /\ [][NextFlush]_vars

\* A scraper constructed over files found on the disk: a store file with no
\* or one entry and no or one session record, whole or cut short, its bytes
\* text or not; then used, and constructed again.
StoreFiles == {<<>>} \cup {<<e>> : e \in EntriesOf(StoreIds)}
SessionFiles == {<<>>, <<[strategy |-> "enumeration", processed |-> 1, found |-> 1]>>}

InitLoad ==
    /\ PoolInit /\ FetchIdle
    /\ db = <<>> /\ lock = NoneVal /\ hist = NoHist
    /\ save_interval = DefaultSaveInterval
    /\ scan_sessions = <<>>
    /\ dbFile \in StoreFiles
    /\ sessionsFile \in SessionFiles
    /\ dbFileTorn \in BOOLEAN
    /\ dbFileText \in BOOLEAN
    /\ processed_ids = {} /\ ledgerFile = <<>> /\ max_workers = MaxWorkers
    /\ is_running = FALSE
    /\ scan_progress = [processed |-> 0, found |-> 0, errors |-> 0]
    /\ pc = "not constructed"
    /\ mode = "none" /\ loc = InitLoc /\ tasks = <<>> /\ g = NoHistory
    /\ rl = IdleLimiter

NextLoad ==
    \/ restart
    \/ \E entry \in EntriesOf(StoreIds) :
          /\ pc = "idle"
          /\ add_entry("main", entry)
          /\ UNCHANGED <<hist, sessVars, poolVars, fetchVars, scanVars, rateVars>>
    \/ stop_scan

SpecLoad == InitLoad /\ [][NextLoad]_vars

\* Two workers calling _rate_limit.
InitRate ==
    /\ PoolInit /\ FetchIdle
    /\ StoreUnused
    /\ ScanUnused

NextRate ==
    \/ \E x \in RateWorkers, delay \in MinDelay..MaxDelay :
          rate_read(x, delay) /\ UNCHANGED <<poolVars, fetchVars, storeVars, sessVars, scanVars>>
    \/ \E x \in RateWorkers :
          rate_stamp(x) /\ UNCHANGED <<poolVars, fetchVars, storeVars, sessVars, scanVars>>
    \/ rate_tick /\ UNCHANGED <<poolVars, fetchVars, storeVars, sessVars, scanVars>>

SpecRate == InitRate /\ [][NextRate]_vars

\* A new scraper over no files whose config sets a small save_interval.
SmallSaveInterval == 2

InitSmallInterval ==
    /\ PoolInit /\ FetchIdle
    /\ db = <<>> /\ dbFile = <<>> /\ lock = NoneVal /\ hist = NoHist
    /\ save_interval = SmallSaveInterval
    /\ scan_sessions = <<>> /\ sessionsFile = <<>> /\ dbFileTorn = FALSE
    /\ dbFileText = TRUE
    /\ ScanUnused

\* run_comprehensive_scan(duration_hours = d) while the clock advances.
DurationChoices == {1}
MaxHours == 2         \* hours the clock advances in a behaviour

hour_passes ==
    /\ now < EpochHours + MaxHours
    /\ now' = now + 1
    /\ UNCHANGED <<proxies, failed_proxies, proxy_stats, sel, pool_lock, reporters,
                   fetchVars, storeVars, sessVars, rateVars, scanVars>>

\* A new scraper over no files, with the default save_interval.
Init ==
    /\ PoolInit /\ FetchIdle
    /\ StoreUnused
    /\ ScanUnused

\* The steps of a scan, of its workers, of stop_scan and of a restart.
ScanSteps ==
    \/ enum_begin
    \/ enum_next
    \/ enum_submit
    \/ enum_collect
    \/ enum_shutdown
    \/ search_begin
    \/ search_term
    \/ \E outcome \in PageOutcomes : search_page(outcome)
    \/ search_merge
    \/ search_submit
    \/ search_collect
    \/ search_shutdown
    \/ comp_begin
    \/ comp_after_search
    \/ comp_finish
    \/ \E i \in 1..Len(tasks) : scrape_start(i)
    \/ \E i \in 1..Len(tasks), outcome \in FetchOutcomes : scrape_fetch(i, outcome)
    \/ \E i \in 1..Len(tasks), outcome \in MetaOutcomes : scrape_meta(i, outcome)
    \/ \E i \in 1..Len(tasks) : scrape_record(i)
    \/ stop_scan
    \/ restart

Next ==
    \/ \E m \in Modes, mp \in MaxPastesChoices : start_run(m, mp, 0)
    \/ ScanSteps

Spec == Init /\ [][Next]_vars

SpecSmallInterval == InitSmallInterval /\ [][Next]_vars

\* A scraper whose config sets max_workers below batch_size, so that calls
\* wait in the queue of the executor.
MaxWorkersChoices == {1}

InitWorkers ==
    /\ PoolInit /\ FetchIdle
    /\ StoreUnused
    /\ ScanIdle
    /\ max_workers \in MaxWorkersChoices

SpecWorkers == InitWorkers /\ [][Next]_vars

\* run_enumeration_scan alone: its batches, the workers, stop_scan and
\* restarts.
NextEnumeration ==
    \/ \E mp \in MaxPastesChoices : start_run("enumeration", mp, 0)
    \/ enum_begin
    \/ enum_next
    \/ enum_submit
    \/ enum_collect
    \/ enum_shutdown
    \/ \E i \in 1..Len(tasks) : scrape_start(i)
    \/ \E i \in 1..Len(tasks), outcome \in FetchOutcomes : scrape_fetch(i, outcome)
    \/ \E i \in 1..Len(tasks), outcome \in MetaOutcomes : scrape_meta(i, outcome)
    \/ \E i \in 1..Len(tasks) : scrape_record(i)
    \/ stop_scan
    \/ restart

SpecEnumeration == Init /\ [][NextEnumeration]_vars

\* run_comprehensive_scan(max_pastes = N) alone, for an N below 4 and for
\* N = 4.
ComprehensiveChoices == {1, 4}

NextComprehensive ==
    \/ \E mp \in ComprehensiveChoices : start_run("comprehensive", mp, 0)
    \/ ScanSteps

SpecComprehensive == Init /\ [][NextComprehensive]_vars

\* _save_processed_id and the reload of the ledger alone: identifiers with
\* and without surrounding whitespace, appends that succeed and appends that
\* fail, and restarts of the process.
MaxLedger == 4        \* lines appended to the ledger file in a behaviour

LedgerIds == {Id1, IdA, IdAsp}

NextLedger ==
    \/ \E id \in LedgerIds, appended \in BOOLEAN :
          /\ Len(ledgerFile) < MaxLedger
          /\ save_processed_id_io(id, appended)
          /\ UNCHANGED <<poolVars, fetchVars, storeVars, sessVars, rateVars, max_workers,
                         is_running, scan_progress, pc, mode, loc, tasks, g>>
    \/ restart

SpecLedger == Init /\ [][NextLedger]_vars

NextDuration ==
    \/ \E d \in DurationChoices : start_run("comprehensive", 0, d)
    \/ hour_passes
    \/ ScanSteps

SpecDuration == Init /\ [][NextDuration]_vars



(***************************************************************************)
(* Claims about the scan runs and the ledger (Spec).                       *)
(***************************************************************************)
IsPrefix(a, b) == Len(a) <= Len(b) /\ SubSeq(b, 1, Len(a)) = a

RecordedIds == {db[i].pasteId : i \in 1..Len(db)}

\* C2: at the end of a run the store holds a record for an identifier if and
\* only if a fetch of that identifier found at least one link.
C2_RecordIffFound == pc = "done" => RecordedIds = g.found

\* C3: a call of scrape_single_paste submitted for an identifier that was in
\* processed_ids when it was submitted never fetches the paste.
C3_SkipRule == \A i \in 1..Len(tasks) : tasks[i].known => ~tasks[i].fetched

\* A whole batch of identifiers that were in the ledger has been run without
\* a fetch.
C3_Witness ==
    /\ Len(tasks) = BatchSize
    /\ \A i \in 1..Len(tasks) :
          tasks[i].known /\ tasks[i].st = "done" /\ ~tasks[i].fetched

\* C4: once stop_scan was called during a run, that run submits no further
\* call to the worker pool and does not set is_running back to True.
C4_StopSemantics ==
    [][(g.stopped /\ g'.stopped) =>
          (g'.submitted = g.submitted /\ (is_running' => is_running))]_vars

\* C5: processed_ids only grows, in every step and across a reload from the
\* ledger file.
C5_LedgerMonotone == [][processed_ids \subseteq processed_ids']_vars

\* C11: when a scan method has returned, the store is flushed and exactly one
\* session record was appended to the session history since the method was
\* called; and no step but a restart changes the records already in the
\* history.
C11_SessionClosed ==
    /\ [](pc = "done" =>
            /\ dbFile = db /\ sessionsFile = scan_sessions /\ ~dbFileTorn
            /\ Len(scan_sessions) = g.sessions0 + 1)
    /\ [][~restart => IsPrefix(scan_sessions, scan_sessions')]_vars

\* C14: a call of scrape_single_paste that returned an entry has put its
\* identifier in processed_ids; and a call submitted for an identifier that
\* was on a line of the ledger file (appended when the paste resolved to an
\* absent or empty one or to an entry, by this process or an earlier one)
\* does not fetch it again.
C14_LedgerOnCompletion ==
    \A i \in 1..Len(tasks) :
       /\ (tasks[i].st = "done" /\ tasks[i].entry # NoEntry)
             => tasks[i].id \in processed_ids
       /\ tasks[i].settled => ~tasks[i].fetched

\* The identifiers processed by the run so far: those of the enumeration, and
\* in the enumeration phase of run_comprehensive_scan those of the search
\* phase too.
EnumPcs == {"enum_begin", "enum_next", "enum_submit", "enum_collect", "enum_shutdown"}

RunProcessed ==
    IF mode = "comprehensive" /\ pc \in EnumPcs /\ loc.total_max > 0
    THEN (loc.total_max - loc.max_pastes) + loc.processed_count
    ELSE loc.processed_count

\* The cap of C15: no batch is dispatched once the cap is reached, and the
\* identifiers processed exceed the cap by less than one batch.
CapHonoured ==
    /\ [][(loc.max_pastes > 0 /\ g'.submitted > g.submitted)
              => loc.processed_count < loc.max_pastes]_vars
    /\ [](loc.max_pastes > 0 => loc.processed_count < loc.max_pastes + BatchSize)
    /\ [](loc.total_max > 0 => RunProcessed < loc.total_max + BatchSize)

\* C15: with max_pastes = N no batch is dispatched once N identifiers are
\* processed, the identifiers processed exceed N by less than one batch, and
\* the run is never stuck for ever before it returns.
C15_MaxPastesCap ==
    /\ CapHonoured
    /\ [](loc.total_max > 0 => pc # "blocked in add_entry")

\* C16: run_comprehensive_scan(duration_hours = D) submits nothing to the
\* worker pool once D hours have passed since it started.
C16_DurationCap ==
    [][(/\ loc.duration_hours > 0
        /\ pc \notin {"idle", "done", "comp_begin"}
        /\ now - loc.start_time >= loc.duration_hours)
          => g'.submitted = g.submitted]_vars

(***************************************************************************)
(* Claims about the flush of the store (SpecFlush).                        *)
(***************************************************************************)
\* C12: whenever the process is killed and started again, the file at db_path
\* holds a complete document, the previous one or the new one.
C12_AtomicFlush == [][restart => ~dbFileTorn]_vars

\* C13: when the process is killed and started again, the reloaded store
\* holds every entry of the last completed flush and nothing else.
C13_CrashDurability ==
    [][restart =>
          /\ \A i \in 1..Len(dbFile) : dbFile[i] \in Range(db')
          /\ \A j \in 1..Len(db') : db'[j] \in Range(dbFile)]_vars

\* The store file does not parse: it was cut short, or its bytes are not text.
Unparsable == dbFileTorn \/ ~dbFileText

\* C26: a scraper constructed over a store file that does not parse has the
\* empty store, no records and no session records, and the constructor
\* returns.
C26_CorruptStoreOnLoad ==
    [][(restart /\ Unparsable) =>
          (pc' = "idle" /\ db' = <<>> /\ scan_sessions' = <<>>)]_vars

\* The part of C26 that holds: over a file that was cut short and whose
\* bytes are text the constructor returns with the empty store.
TruncatedStoreOnLoad ==
    [][(restart /\ dbFileTorn /\ dbFileText) =>
          (pc' = "idle" /\ db' = <<>> /\ scan_sessions' = <<>>)]_vars

(***************************************************************************)
(* Claims about the rate limiter (SpecRate).                               *)
(***************************************************************************)
\* C17: any two consecutive returns of _rate_limit, whichever workers made the
\* calls, are separated by at least the delay drawn by the later call, which
\* is at least the minimal delay.
C17_GlobalSpacing ==
    \A k \in 2..Len(rl.permits) :
        /\ rl.permits[k].at - rl.permits[k - 1].at >= rl.permits[k].delay
        /\ rl.permits[k].at - rl.permits[k - 1].at >= MinDelay

(***************************************************************************)
(* Claims about the record store (SpecStore).                              *)
(***************************************************************************)
EntriesWithId(d, id) == {i \in 1..Len(d) : d[i].pasteId = id}

\* C1: after add_entry(R) twice in a row the store holds one entry for R's
\* pasteId with each distinct link exactly once; after two entries with the
\* same pasteId and disjoint link sets it holds one entry whose links are the
\* union of the two sets (and of what the store held for that pasteId before).
C1_IdempotentMerge ==
    (hist.e1 # NoEntry /\ hist.e1.pasteId = hist.e2.pasteId) =>
        LET id == hist.e2.pasteId
            held == LinksOf(db, id)
        IN /\ hist.e1 = hist.e2 =>
                /\ Cardinality(EntriesWithId(db, id)) = 1
                /\ NoDup(held)
                /\ Range(held) = Range(hist.l0) \cup Range(hist.e2.links)
           /\ Range(hist.e1.links) \cap Range(hist.e2.links) = {} =>
                /\ Cardinality(EntriesWithId(db, id)) = 1
                /\ NoDup(held)
                /\ Range(held) = Range(hist.l0) \cup Range(hist.e1.links)
                                               \cup Range(hist.e2.links)

\* C1 witness: the same entry with two links was merged twice into a store
\* that had no entry for its pasteId.
C1_Witness ==
    /\ hist.e1 = hist.e2 /\ hist.e2 # NoEntry
    /\ hist.l0 = <<>> /\ Len(hist.e2.links) = 2
    /\ Len(LinksOf(db, hist.e2.pasteId)) = 2

\* C6: add_entry never removes an entry and never overwrites its pasteId or
\* metadata; the links of an entry are only extended at the end, by values it
\* did not hold, so no entry holds a link twice.
C6_MergesOnlyAdd ==
    /\ [][/\ Len(db') >= Len(db)
          /\ \A i \in 1..Len(db) :
                /\ db'[i].pasteId = db[i].pasteId
                /\ db'[i].title = db[i].title
                /\ IsPrefix(db[i].links, db'[i].links)
                /\ \A k \in (Len(db[i].links) + 1)..Len(db'[i].links) :
                      db'[i].links[k] \notin Range(db[i].links)]_vars
    /\ [](\A i \in 1..Len(db) : NoDup(db[i].links))

\* C6 witness: an entry with another title and a new link was merged into an
\* existing entry, which kept its title and its first link in place.
C6_Witness ==
    \E i \in 1..Len(db) :
        /\ db[i].pasteId = hist.e2.pasteId
        /\ hist.l1 # <<>>
        /\ Len(db[i].links) > Len(hist.l1)
        /\ db[i].title # hist.e2.title

\* C7: every save_interval merged entries the store is written to the file,
\* so fewer than save_interval merged entries are ever missing from the file.
C7_PeriodicCheckpoint == Len(db) - Len(dbFile) < save_interval

(***************************************************************************)
(* Claims about one pass over a batch (SpecEnumeration, Spec).             *)
(***************************************************************************)
\* The loop over as_completed has taken the result of every call of the batch.
PassDone == tasks # <<>> /\ \A i \in 1..Len(tasks) : tasks[i].consumed

\* The calls of scrape_single_paste that a worker thread is executing.
InFlight == {i \in 1..Len(tasks) : Running(i)}

\* C23: at every moment of a run at most max_workers calls of
\* scrape_single_paste are in flight.
C23_BoundedParallelism == Cardinality(InFlight) <= max_workers

\* C23 witness: with max_workers = 1 and a batch of two, one call is in
\* flight while the other one waits in the queue of the executor.
C23_Witness ==
    /\ max_workers = 1
    /\ Len(tasks) = 2
    /\ Cardinality(InFlight) = 1
    /\ \E i \in 1..Len(tasks) : tasks[i].st = "queued"

\* C24: a call of scrape_single_paste that ends in a failure (a status that
\* is neither 200 nor 404, or an exception of the fetch, the extraction or the
\* metadata request) changes neither the position of the run nor is_running
\* nor any other call of the batch; the loop over the results of a batch is
\* left only when every result was taken or is_running was cleared; and the
\* calls of a batch are dropped only when each of them has run to its end.
C24_FaultIsolation ==
    [][~restart =>
         /\ \A i \in 1..Len(tasks) :
               (Len(tasks') = Len(tasks) /\ tasks'[i].failed /\ ~tasks[i].failed) =>
                  /\ pc' = pc /\ is_running' = is_running /\ loc' = loc
                  /\ \A j \in 1..Len(tasks) : j # i => tasks'[j] = tasks[j]
         /\ (pc \in {"enum_collect", "search_collect"} /\ pc' # pc) =>
               (~is_running \/ \A i \in 1..Len(tasks) : tasks[i].consumed)
         /\ (tasks # <<>> /\ tasks' = <<>>) =>
               \A i \in 1..Len(tasks) : tasks[i].st = "done"]_vars

\* C24 witness: the first call of a batch failed, the second one returned
\* an entry that was merged, and the run goes on.
C24_Witness ==
    /\ PassDone /\ is_running
    /\ Len(tasks) = 2
    /\ tasks[1].failed
    /\ ~tasks[2].failed /\ tasks[2].entry # NoEntry
    /\ tasks[2].id \in RecordedIds
    /\ scan_progress.processed = 2

\* C25: every call of scrape_single_paste that ends in a failure (a status
\* that is neither 200 nor 404, or an exception) adds one to
\* scan_progress["errors"].
C25_ErrorCounting ==
    [][\A i \in 1..Len(tasks) :
          (Len(tasks') = Len(tasks) /\ tasks'[i].failed /\ ~tasks[i].failed) =>
             scan_progress'.errors = scan_progress.errors + 1]_vars

\* The state a returned stop_scan leaves: flag cleared, store file written.
StopFixpoint ==
    /\ ~is_running
    /\ dbFile = db /\ sessionsFile = scan_sessions /\ ~dbFileTorn /\ dbFileText

\* What stop_scan does when its _save_db gets the lock: the flag is cleared;
\* the records of the store, the session history, processed_ids, the ledger
\* file and the position of the run are as before; and a second call changes
\* nothing at all.
StopEffect ==
    /\ stop_scan =>
          /\ ~is_running'
          /\ db' = db /\ scan_sessions' = scan_sessions
          /\ processed_ids' = processed_ids /\ ledgerFile' = ledgerFile
          /\ pc' = pc /\ tasks' = tasks
    /\ (stop_scan /\ lock = NoneVal) => StopFixpoint'
    /\ (stop_scan /\ StopFixpoint) => UNCHANGED vars

\* The part of C27 that holds: the effect of stop_scan before, during and
\* after a run.
StopIdempotent == [][StopEffect]_vars

\* C27: stop_scan can be called in every state, before, during and after a
\* run: the call returns (its _save_db gets the lock: between the steps of
\* the scan specifications the lock is held only by a thread that never
\* releases it), it leaves is_running cleared and the records of the store
\* and the ledger unchanged, and a second call has no further effect.
C27_StopIdempotentSafe ==
    [][StopEffect /\ (stop_scan => lock = NoneVal)]_vars

\* C28: every call of add_entry returns and releases self.lock, the call that
\* reaches the periodic save included: add_entry is one step of the run, so
\* between steps no thread holds the lock, the thread of the scan is not
\* inside add_entry, and no worker waits for the lock for ever.
C28_MergeNeverDeadlocks ==
    /\ lock = NoneVal
    /\ pc # "blocked in add_entry"

\* C29: an identifier whose fetch found links is written to the ledger only
\* after its record was merged: whenever the identifier of a call that built
\* an entry is in the ledger file, the store holds a record for it.
C29_LedgerAfterMerge ==
    \A i \in 1..Len(tasks) :
        (tasks[i].entry # NoEntry /\ tasks[i].id \in Range(ledgerFile)) =>
            EntriesWithId(db, tasks[i].entry.pasteId) # {}

\* C30: with max_workers >= 2, of the calls of one batch that were given the
\* same identifier at most one fetches the paste, whatever the interleaving
\* of the workers.
C30_AtMostOnceFetch ==
    max_workers >= 2 =>
        \A i, j \in 1..Len(tasks) :
            (i # j /\ tasks[i].id = tasks[j].id) =>
                ~(tasks[i].fetched /\ tasks[j].fetched)

\* The call i of the batch leaves the request for the metadata in the step.
MetaEnded(i) ==
    /\ Len(tasks') = Len(tasks)
    /\ tasks[i].st = "meta" /\ tasks'[i].st # "meta"

\* The part of C32 that holds: a metadata page that is not a 200 or does not
\* parse gives an entry with the placeholder title and every link found.
PlaceholderOnBadPage ==
    [][\A i \in 1..Len(tasks) :
          (MetaEnded(i) /\ ~tasks'[i].failed) =>
              /\ tasks'[i].entry # NoEntry
              /\ tasks'[i].entry.pasteId = tasks[i].id
              /\ tasks'[i].entry.title \in {PageTitle, PlaceholderTitle}
              /\ Range(tasks'[i].entry.links) = LinksIn(tasks[i].id)]_vars

\* C32: once links were found for an identifier, the call builds its entry
\* whatever the request for the metadata page ends in (an error status, an
\* error of the transport, a page that does not parse): the entry has the
\* title of the page or the placeholder title and every link found, and the
\* call does not end in a failure.
C32_MetadataFallback ==
    [][\A i \in 1..Len(tasks) :
          MetaEnded(i) =>
              /\ ~tasks'[i].failed
              /\ tasks'[i].entry # NoEntry
              /\ tasks'[i].entry.pasteId = tasks[i].id
              /\ tasks'[i].entry.title \in {PageTitle, PlaceholderTitle}
              /\ Range(tasks'[i].entry.links) = LinksIn(tasks[i].id)]_vars

\* A comprehensive run with max_pastes = N > 0.
CappedComprehensive == mode = "comprehensive" /\ loc.total_max > 0

\* The enumeration phase of a comprehensive run begins in the step.
EnumerationPhaseBegins ==
    CappedComprehensive /\ pc # "enum_begin" /\ pc' = "enum_begin"

\* The parts of C33 that hold: with N >= 4 the search phase dispatches at
\* most N/4 identifiers, and the enumeration phase begins only when the search
\* phase has returned, with every call of it ended and dropped.
PhasesFromFour ==
    /\ []((CappedComprehensive /\ loc.total_max >= 4 /\ pc = "search_collect") =>
             4 * Len(tasks) <= loc.total_max)
    /\ [][EnumerationPhaseBegins => (pc = "comp_after_search" /\ tasks = <<>>)]_vars

\* The cap of the enumeration phase is N minus the number processed in the
\* search phase.
EnumerationCapFromSearchCount ==
    [][EnumerationPhaseBegins =>
          loc'.max_pastes = loc.total_max - loc.processed_count]_vars

\* C33: in a comprehensive run with max_pastes = N > 0 the search phase
\* dispatches at most N/4 identifiers; the enumeration phase begins only
\* after the search phase has returned; and the enumeration phase is called
\* with the cap N minus the number processed in the search phase.
C33_ComprehensivePhases ==
    /\ []((CappedComprehensive /\ pc = "search_collect") =>
             4 * Len(tasks) <= loc.total_max)
    /\ [][EnumerationPhaseBegins =>
             /\ pc = "comp_after_search" /\ tasks = <<>>
             /\ loc'.max_pastes = loc.total_max - loc.processed_count]_vars

\* The call i of the batch ends in a soft failure in the step.
SoftFailure(i) ==
    /\ Len(tasks') = Len(tasks)
    /\ tasks'[i].failed /\ ~tasks[i].failed

C37_ProgressMonotone ==
    /\ [][~restart => scan_progress'.processed >= scan_progress.processed]_vars
    /\ [][(mode = "comprehensive" /\ pc = "enum_shutdown" /\ pc' = "comp_finish") =>
             scan_progress.processed = g.searched + loc.processed_count]_vars
    /\ [][(pc = "comp_after_search" /\ pc' = "comp_finish") =>
             scan_progress.processed = g.searched]_vars

\* The counter of one phase: between the first result of a batch and the
\* last one scan_progress["processed"] follows the count of the loop.
ProgressWithinPhase ==
    [][(pc \in {"enum_collect", "search_collect"} /\ pc' = pc
          /\ loc'.processed_count # loc.processed_count) =>
             /\ loc'.processed_count = loc.processed_count + 1
             /\ scan_progress'.processed = loc'.processed_count]_vars

\* The part of C38 that holds: every identifier of processed_ids is a line of
\* the ledger file or the stripped form of one, also after appends that
\* failed and after restarts.
LedgerBacked ==
    \A id \in processed_ids :
        id \in Range(ledgerFile) \/ id \in load_processed_ids(ledgerFile)

\* C38: every identifier of processed_ids has been appended to the ledger
\* file: it is one of its lines. (The append is made before the add, and an
\* append that fails adds nothing.)
C38_WriteAheadLedger == processed_ids \subseteq Range(ledgerFile)

FailureReported(p) == proxy_stats'[p].failures = proxy_stats[p].failures + 1

\* C8 (as stated): a report_failure puts the proxy into quarantine exactly
\* when, after the update, its total is at least 10 and its failure rate is
\* greater than 0.7.
C8_QuarantineAtLeast10 ==
    [][\A p \in ProxyAddrs :
          FailureReported(p) =>
              (p \in failed_proxies' <=>
                  (Total(proxy_stats'[p]) >= 10
                   /\ 10 * proxy_stats'[p].failures > 7 * Total(proxy_stats'[p])))]_vars

\* C8 (amended): a report_failure puts the proxy into quarantine exactly when,
\* after the update, its total is greater than 10 (at least 11) and its
\* failure rate is greater than 0.7; and a proxy is in quarantine only while
\* that condition holds of its counters.
C8_QuarantineRule ==
    /\ [][\A p \in ProxyAddrs :
            FailureReported(p) =>
                (p \in failed_proxies' <=>
                    (Total(proxy_stats'[p]) > 10
                     /\ 10 * proxy_stats'[p].failures > 7 * Total(proxy_stats'[p])))]_vars
    /\ [](\A p \in failed_proxies :
            /\ Total(proxy_stats[p]) > 10
            /\ 10 * proxy_stats[p].failures > 7 * Total(proxy_stats[p]))

\* C8 witness: a proxy was quarantined by its 11th report, and another proxy
\* with 8 failures out of 10 reports is not.
C8_Witness ==
    \E p, q \in ProxyAddrs :
        /\ p \in failed_proxies /\ Total(proxy_stats[p]) = 11
        /\ Registered(q) /\ q \notin failed_proxies
        /\ Total(proxy_stats[q]) = 10 /\ proxy_stats[q].failures = 8

\* The reports for p that were begun and have not written their counter.
Pending(p) ==
    {x \in ReportThreads :
        reporters.t[x].p = p /\ reporters.t[x].pc \in {"acquire", "read", "write"}}

\* Thread x ends a mark_failure in the step.
FailureDecided(x) ==
    /\ reporters.t[x].pc = "decide" /\ reporters.t[x].kind = "failure"
    /\ reporters'.t[x].pc = "idle"

\* C35: whatever the interleaving of the threads that call mark_success and
\* mark_failure, no update is lost: for a registered address success +
\* failures is the number of reports made for it that have written their
\* counter (and stays 0 for an address that is not registered); and the
\* quarantine test of a mark_failure is made on counters that hold the value
\* written by that call.
C35_AtomicPoolUpdates ==
    /\ [](\A p \in ProxyAddrs :
            Total(proxy_stats[p]) =
               IF Registered(p) THEN reporters.calls[p] - Cardinality(Pending(p)) ELSE 0)
    /\ [][\A x \in ReportThreads :
            FailureDecided(x) =>
               LET p == reporters.t[x].p IN
               /\ proxy_stats[p].failures = reporters.t[x].read + 1
               /\ p \in failed_proxies' <=>
                     (p \in failed_proxies \/ quarantine_due(proxy_stats[p]))]_vars

\* C35 witness: one thread is between the read and the write of its
\* mark_failure for p1, the other one waits for the lock with a report for
\* p1, and the eleven reports made before have all been counted, eight of
\* them failures.
C35_Witness ==
    /\ reporters.t["w1"].pc = "write" /\ reporters.t["w1"].kind = "failure"
    /\ reporters.t["w1"].p = "p1"
    /\ reporters.t["w2"].pc = "acquire" /\ reporters.t["w2"].p = "p1"
    /\ pool_lock = "w1"
    /\ reporters.calls["p1"] = 12
    /\ Total(proxy_stats["p1"]) = 10 /\ proxy_stats["p1"].failures = 8

\* The part of C39 that holds: get_best_proxy changes no counter and no
\* last_used time, registers and removes no proxy, and changes the quarantine
\* set only by emptying it when every proxy is in it.
SelectionKeepsCounters ==
    [][get_best_proxy =>
          /\ proxy_stats' = proxy_stats
          /\ Range(proxies') = Range(proxies) /\ Len(proxies') = Len(proxies)
          /\ failed_proxies' = IF AllQuarantined THEN {} ELSE failed_proxies]_vars

\* C39: get_best_proxy changes nothing in the pool but the quarantine set,
\* which it empties when every proxy is in it: the counters, the last_used
\* times and the order of the proxy list are as before the call.
C39_SelectionNoSideEffect ==
    [][get_best_proxy =>
          /\ proxy_stats' = proxy_stats
          /\ proxies' = proxies
          /\ failed_proxies' = IF AllQuarantined THEN {} ELSE failed_proxies]_vars

\* C40: after any sequence of add_proxies, get_best_proxy, get_random_proxy,
\* mark_success and mark_failure, reports for addresses that are not
\* registered included (they change nothing): the quarantine set holds
\* registered proxies only, the counters of every registered proxy are not
\* negative, and the snapshot of get_proxy_stats has working_proxies =
\* total_proxies - failed_proxies with 0 <= failed_proxies <= total_proxies.
C40_PoolWellFormed ==
    /\ failed_proxies \subseteq Range(proxies)
    /\ \A p \in ProxyAddrs :
          /\ proxy_stats[p].success >= 0 /\ proxy_stats[p].failures >= 0
          /\ ~Registered(p) => proxy_stats[p] = FreshStats
    /\ LET s == get_proxy_stats IN
          /\ s.working_proxies = s.total_proxies - s.failed_proxies
          /\ 0 <= s.failed_proxies /\ s.failed_proxies <= s.total_proxies
          /\ 0 <= s.working_proxies

\* C40 witness: of two registered proxies one is in quarantine after its
\* eleventh report, and the last selection was a random one.
C40_Witness ==
    /\ get_proxy_stats = [total_proxies |-> 2, failed_proxies |-> 1, working_proxies |-> 1]
    /\ \E p \in failed_proxies : Total(proxy_stats[p]) = 11
    /\ sel.op = "random"

\* A step of get_best_proxy or get_random_proxy: the only steps that change
\* the state without changing the counters or the set of registered proxies.
SelectionStep ==
    /\ proxy_stats' = proxy_stats
    /\ Range(proxies') = Range(proxies)
    /\ <<proxies, failed_proxies, sel>> # <<proxies', failed_proxies', sel'>>

\* C9: whenever the pool is non-empty, get_best_proxy and get_random_proxy
\* return a registered proxy (None only for the empty pool); a call that finds
\* every proxy quarantined empties the quarantine set and returns a proxy.
C9_NoStarvation ==
    /\ [](sel.op # "none" =>
            /\ (sel.ret = NoneVal) <=> sel.empty
            /\ sel.ret # NoneVal => Registered(sel.ret)
            /\ sel.reset => sel.ret # NoneVal)
    /\ [][(AllQuarantined /\ SelectionStep)
            => (failed_proxies' = {} /\ sel'.ret \in Range(proxies))]_vars

\* C9 witness: both selection operations returned a proxy from a pool of two
\* whose proxies were all quarantined.
C9_WitnessBest ==
    /\ sel.op = "best" /\ sel.reset /\ sel.ret # NoneVal
    /\ Len(proxies) = 2 /\ failed_proxies = {}

\* A step that records one success for p.
SuccessReported(p) == proxy_stats'[p].success = proxy_stats[p].success + 1

\* C18: after mark_success for a registered address the address is not in
\* quarantine, whatever its counters are; and an address enters quarantine
\* only in a step that records a failure for that address.
C18_SuccessClearsQuarantine ==
    [][\A p \in ProxyAddrs :
          /\ (Registered(p) /\ SuccessReported(p)) => p \notin failed_proxies'
          /\ (p \in failed_proxies' /\ p \notin failed_proxies) => FailureReported(p)]_vars

\* C18 witness: no selection was ever made (so the quarantine set was never
\* reset), a proxy has 11 failures and then one success, its counters still
\* meet the quarantine test, and it is not in quarantine.
C18_Witness ==
    /\ sel.op = "none"
    /\ \E p \in ProxyAddrs :
          /\ Registered(p)
          /\ proxy_stats[p].failures = 11 /\ proxy_stats[p].success = 1
          /\ quarantine_due(proxy_stats[p])
          /\ p \notin failed_proxies

\* The order of the addresses.
AddrIndex(p) == IF p = "p1" THEN 1 ELSE 2

\* The proxies a selection may return: those not in quarantine, or all of
\* them when all are in quarantine.
Selectable == IF AllQuarantined THEN Range(proxies)
              ELSE Range(Available(proxies, failed_proxies))

\* The result of a get_best_proxy step on a non-empty pool has a maximal score among the
\* selectable proxies.
BestIsMaximal ==
    [][(SelectionStep /\ sel'.op = "best" /\ proxies # <<>>) =>
          /\ sel'.ret \in Selectable
          /\ \A q \in Selectable : ~ScoreGreater(proxy_stats, now, q, sel'.ret)]_vars

\* C19: on a non-empty pool get_best_proxy returns a proxy that is not in quarantine and whose
\* score is maximal among those, and among several proxies of maximal score
\* the first in address order.
C19_BestSelection ==
    [][(SelectionStep /\ sel'.op = "best" /\ proxies # <<>>) =>
          /\ sel'.ret \in Selectable
          /\ \A q \in Selectable :
                /\ ~ScoreGreater(proxy_stats, now, q, sel'.ret)
                /\ ~ScoreGreater(proxy_stats, now, sel'.ret, q)
                      => AddrIndex(sel'.ret) <= AddrIndex(q)]_vars

\* C20: the score of a registered proxy without recorded requests is greater
\* than or equal to the score of every proxy with recorded requests.
C20_NewNotPenalized ==
    \A p, q \in Range(proxies) :
        (Total(proxy_stats[p]) = 0 /\ Total(proxy_stats[q]) > 0)
            => ~ScoreGreater(proxy_stats, now, q, p)


(***************************************************************************)
(* Claims about the retrying fetch (SpecFetch).                            *)
(***************************************************************************)
RECURSIVE CappedSeries(_)
\* The waits delay = base * 2^(attempt-1), capped at 30, after attempts 1..n.
CappedSeries(n) ==
    IF n <= 0 THEN <<>>
    ELSE Append(CappedSeries(n - 1), IF 2 * Pow2(n - 1) > 30 THEN 30 ELSE 2 * Pow2(n - 1))

RECURSIVE SeqSum(_)
SeqSum(s) == IF s = <<>> THEN 0 ELSE Head(s) + SeqSum(Tail(s))

\* C10: a fetch over a non-empty pool whose every attempt returned 503 makes
\* exactly max_retries attempts and returns (None, None); the waits between
\* the attempts are base * 2^(attempt-1) capped at 30 seconds, so the time
\* waited is at least the sum of that series.
C10_RetryTermination ==
    (req.pc = "done" /\ req.only503 /\ proxies # <<>>) =>
        /\ req.attempts = max_retries
        /\ req.response = NoneVal /\ req.proxy_used = NoneVal
        /\ req.waits = CappedSeries(max_retries - 1)
        /\ SeqSum(req.waits) >= SeqSum(CappedSeries(max_retries - 1))

\* C21: an attempt that received a 200 or a 404 counts one success for the
\* proxy it went through and no failure, and the call returns that response
\* and that proxy at once: retries and the waits slept are as before the
\* attempt, and no attempt follows within the call.
C21_TerminalResponses ==
    /\ [][(req.pc = "send" /\ req'.received \in {"200", "404"}) =>
            /\ req'.pc = "done"
            /\ req'.response = req'.received
            /\ req'.proxy_used = req.proxy
            /\ req'.attempts = req.attempts + 1
            /\ req'.retries = req.retries
            /\ req'.waits = req.waits
            /\ proxy_stats'[req.proxy].success = proxy_stats[req.proxy].success + 1
            /\ proxy_stats'[req.proxy].failures = proxy_stats[req.proxy].failures]_vars
    /\ [][(req.pc = "done" /\ req.received \in {"200", "404"}) =>
            (req'.attempts = req.attempts \/ req'.calls = req.calls + 1)]_vars

\* C21 witness: a call that returned a 404 on its third attempt, after two
\* failures and their two waits.
C21_Witness ==
    /\ req.pc = "done" /\ req.received = "404" /\ req.response = "404"
    /\ req.attempts = 3 /\ req.waits = <<2, 4>>
    /\ req.proxy_used = req.proxy

\* An attempt of the call ended in the step.
AttemptEnded == req.pc = "send" /\ req'.attempts = req.attempts + 1

\* C31: an attempt that ends in an exception of the transport, in a status
\* of {403, 429, 502, 503, 504} or in any other status that is neither 200
\* nor 404 counts exactly one failure, and no success, for the proxy it went
\* through and changes the counters of no other proxy; the call then goes on
\* to another attempt (the selection that follows returns a proxy and the
\* request is sent) unless max_retries attempts have been made, in which case
\* it returns (None, None).
C31_FailureClassification ==
    /\ [][(AttemptEnded /\ req'.received \notin SuccessStatuses) =>
            /\ req'.received \in ProxyErrorStatuses \cup OtherStatuses \cup Exceptions
            /\ proxy_stats'[req.proxy].failures = proxy_stats[req.proxy].failures + 1
            /\ proxy_stats'[req.proxy].success = proxy_stats[req.proxy].success
            /\ \A p \in ProxyAddrs \ {req.proxy} : proxy_stats'[p] = proxy_stats[p]
            /\ req'.pc = IF req'.attempts < max_retries THEN "select" ELSE "done"
            /\ req'.pc = "done" => (req'.response = NoneVal /\ req'.proxy_used = NoneVal)]_vars
    /\ [][(req.pc = "select" /\ req.attempts > 0 /\ req'.pc # "select") =>
            (req'.pc = "send" /\ Registered(req'.proxy))]_vars

\* C31 witness: a call with max_retries = 5 whose attempts all failed, the
\* last one with the status 500, through the one proxy of the pool: five
\* failures are counted for it.
C31_Witness ==
    /\ req.pc = "done" /\ req.calls = 1 /\ max_retries = DefaultMaxRetries
    /\ req.received = "500" /\ req.attempts = DefaultMaxRetries
    /\ proxies = <<"p1">>
    /\ proxy_stats["p1"].failures = DefaultMaxRetries /\ proxy_stats["p1"].success = 0

C10_Witness ==
    /\ req.pc = "done" /\ req.only503 /\ proxies # <<>>
    /\ max_retries = 7 /\ req.attempts = 7
    /\ req.waits = <<2, 4, 8, 16, 30, 30>>

====
